---------------------------- MODULE Spec2Model ----------------------------
(* ReflectDeep (src/src/deep.ts): the deep clone of a value graph.           *)
(*                                                                         *)
(* A value is an integer: a positive integer is a reference to the object  *)
(* stored at that index of the heap, anything else is an atom (a primitive *)
(* value).  The heap is a sequence of object records; allocation appends.  *)
(* deepClone is the recursive operator DeepClone over a threaded state     *)
(* (heap, cache, log, returned value, thrown flag), written branch by      *)
(* branch as the source.                                                   *)
EXTENDS Integers, Sequences, FiniteSets, TLC

(***************************************************************************)
(* Bounds of the model.                                                    *)
(***************************************************************************)
\* number of objects of the source heap
NumObjs == 2
\* number of slots (properties, elements, entries) of the first object
NumSlots == 2
\* longest array of the array family
MaxLen == 3
\* number of clone calls of one behaviour
MaxCalls == 1
\* number of clone calls of one behaviour of repeated cloning
MaxRepeat == 2

(***************************************************************************)
(* Values.                                                                 *)
(***************************************************************************)
Undefined == 0
Null == 0 - 1
ANumber == 0 - 2
AString == 0 - 3
ABoolean == 0 - 4
ASymbol == 0 - 5
\* the marker of an absent array index (never a value)
Hole == 0 - 9

Atoms == {Undefined, Null, ANumber, AString, ABoolean, ASymbol}

IsRef(v) == v >= 1

BoxedKinds == {"Number", "String", "Boolean", "BigInt"}
AliasedKinds == {"WeakMap", "WeakSet", "Promise", "SharedArrayBuffer"}
ViewKinds == {"TypedArray", "DataView", "Buffer"}
PayloadKinds == BoxedKinds \cup ViewKinds \cup {"Date", "RegExp", "ArrayBuffer"}
CollectionKinds == {"Array", "Map", "Set"}
Kinds == PayloadKinds \cup AliasedKinds \cup CollectionKinds
           \cup {"WeakRef", "Function", "Object"}

\* property keys: two string keys and one symbol key; own keys are listed
\* strings first, symbols last
KeyOrder == <<"a", "_v", "@s">>
Keys == {KeyOrder[i] : i \in 1..Len(KeyOrder)}
\* the key an accessor reads and writes on its receiver
Backing == "_v"

(***************************************************************************)
(* Property descriptors and object records.                                *)
(***************************************************************************)
NoProp == [t |-> "none", v |-> Undefined, w |-> FALSE, e |-> FALSE,
           c |-> FALSE, hg |-> FALSE, hs |-> FALSE]
DataProp(v, w, e, c) == [t |-> "data", v |-> v, w |-> w, e |-> e,
                         c |-> c, hg |-> FALSE, hs |-> FALSE]
AccProp(hg, hs, e, c) == [t |-> "acc", v |-> Undefined, w |-> FALSE, e |-> e,
                          c |-> c, hg |-> hg, hs |-> hs]
\* the property an assignment creates
PlainProp(v) == DataProp(v, TRUE, TRUE, TRUE)

NoProps == [k \in Keys |-> NoProp]

\* kind: the constructor the object is an instance of
\* proto, ip: the prototype, an object of the heap (proto >= 1) or the
\*            intrinsic prototype named ip (proto = 0)
\* ext: extensible;  props: own properties
\* elems: the elements of an Array (Hole where absent) or of a Set
\* mkeys, mvals: the entries of a Map, in insertion order
\* payload: primitive value, timestamp, pattern or bytes
\* target: what a WeakRef dereferences to (Undefined once collected)
NewObj(kind, proto, ip) ==
    [kind |-> kind, proto |-> proto, ip |-> ip, ext |-> TRUE,
     props |-> NoProps, elems |-> <<>>, mkeys |-> <<>>, mvals |-> <<>>,
     payload |-> 0, target |-> Undefined]

Intrinsic(kind) == NewObj(kind, 0, kind)

TypeOf(h, v) ==
    IF IsRef(v) THEN (IF h[v].kind = "Function" THEN "function" ELSE "object")
    ELSE IF v = Null THEN "object"
    ELSE "atom"


(***************************************************************************)
(* The reflection primitives the library is written with (native.js        *)
(* re-exports Reflect.*, Object.create, Map.prototype.set, ...), with the  *)
(* semantics ECMAScript gives them on ordinary objects.                    *)
(***************************************************************************)
\* Object.prototype where the heap holds it as one of its objects, the
\* object whose prototype is null (ip = "null"); 0 where the heap leaves
\* it outside, and then it has none of the keys of Keys
ObjectPrototypeIn(h) ==
    IF \E q \in 1..Len(h) : h[q].ip = "null"
    THEN CHOOSE q \in 1..Len(h) : h[q].ip = "null"
    ELSE 0

\* the object of o's prototype chain (o included) that owns key k, 0 if
\* none; every intrinsic prototype inherits from Object.prototype
RECURSIVE FindHolder(_, _, _)
FindHolder(h, o, k) ==
    IF h[o].props[k].t # "none" THEN o
    ELSE IF h[o].proto # 0 THEN FindHolder(h, h[o].proto, k)
    ELSE IF h[o].ip = "null" \/ ObjectPrototypeIn(h) = 0 THEN 0
    ELSE FindHolder(h, ObjectPrototypeIn(h), k)

ReflectHas(h, o, k) == FindHolder(h, o, k) # 0

\* what a getter returns: the receiver's backing field
BackingValue(h, r) ==
    LET b == FindHolder(h, r, Backing)
    IN  IF b # 0 /\ h[b].props[Backing].t = "data"
        THEN h[b].props[Backing].v ELSE Undefined

ReflectGet(h, o, k) ==
    LET b == FindHolder(h, o, k)
    IN  IF b = 0 THEN Undefined
        ELSE IF h[b].props[k].t = "data" THEN h[b].props[k].v
        ELSE IF h[b].props[k].hg THEN BackingValue(h, o)
        ELSE Undefined

\* CreateDataProperty on the receiver
CreateOwn(h, r, k, v) ==
    IF h[r].ext THEN [heap |-> [h EXCEPT ![r].props[k] = PlainProp(v)], ok |-> TRUE]
    ELSE [heap |-> h, ok |-> FALSE]

\* OrdinarySet where the property found is a data property or is missing
AssignData(h, r, k, v) ==
    LET b == FindHolder(h, r, k)
    IN  IF b = 0 THEN CreateOwn(h, r, k, v)
        ELSE IF h[b].props[k].t # "data" \/ ~h[b].props[k].w
             THEN [heap |-> h, ok |-> FALSE]
        ELSE IF b = r THEN [heap |-> [h EXCEPT ![r].props[k].v = v], ok |-> TRUE]
        ELSE CreateOwn(h, r, k, v)

\* Reflect.set(o, k, v) with the default receiver o; a setter stores v in
\* the receiver's backing field and its outcome is not reported
ReflectSet(h, o, k, v) ==
    LET b == FindHolder(h, o, k)
    IN  IF b # 0 /\ h[b].props[k].t = "acc"
        THEN IF h[b].props[k].hs
             THEN [heap |-> AssignData(h, o, Backing, v).heap, ok |-> TRUE]
             ELSE [heap |-> h, ok |-> FALSE]
        ELSE AssignData(h, o, k, v)

ReflectOwnKeys(h, o) == SelectSeq(KeyOrder, LAMBDA k : h[o].props[k].t # "none")

ReflectGetPrototypeOf(h, o) == [proto |-> h[o].proto, ip |-> h[o].ip]

\* an object literal in place of Object.create(prototype)
ObjectCreatePlain(p) == NewObj("Object", 0, "Object")

ObjectCreate(p) == NewObj("Object", p.proto, p.ip)

\* the index test without the look at the element
ArrayHasBelowLength(h, a, i) == i < Len(h[a].elems)

\* i in o, for an array o and an index i (counted from 0)
ArrayHas(h, a, i) == i < Len(h[a].elems) /\ h[a].elems[i + 1] # Hole

\* o[i]: undefined where the index is absent
ArrayGet(h, a, i) ==
    IF i < Len(h[a].elems) /\ h[a].elems[i + 1] # Hole
    THEN h[a].elems[i + 1] ELSE Undefined

\* result[i] = v on an array: the length grows to i + 1 where it was shorter
ArraySet(h, a, i, v) ==
    LET old == h[a].elems
        n == IF Len(old) > i + 1 THEN Len(old) ELSE i + 1
    IN  [h EXCEPT ![a].elems =
            [j \in 1..n |-> IF j = i + 1 THEN v
                            ELSE IF j <= Len(old) THEN old[j] ELSE Hole]]

IndexOf(s, v) ==
    IF \E j \in 1..Len(s) : s[j] = v
    THEN CHOOSE j \in 1..Len(s) : s[j] = v ELSE 0

\* Map.prototype.set called with the value first
MapSetSwapped(h, m, k, v) ==
    LET j == IndexOf(h[m].mkeys, v)
    IN  IF j # 0 THEN [h EXCEPT ![m].mvals[j] = k]
        ELSE [h EXCEPT ![m].mkeys = Append(@, v), ![m].mvals = Append(@, k)]

\* Map.prototype.set: a key already present keeps its position
MapSet(h, m, k, v) ==
    LET j == IndexOf(h[m].mkeys, k)
    IN  IF j # 0 THEN [h EXCEPT ![m].mvals[j] = v]
        ELSE [h EXCEPT ![m].mkeys = Append(@, k), ![m].mvals = Append(@, v)]

\* Set.prototype.add
SetAdd(h, s, v) ==
    IF IndexOf(h[s].elems, v) # 0 THEN h
    ELSE [h EXCEPT ![s].elems = Append(@, v)]

(***************************************************************************)
(* deepClone(cache, o).  The threaded state st holds the heap, the cache   *)
(* (the WeakMap of the call), the value returned, whether an exception     *)
(* left the call, and a log of the calls, registrations and returns.       *)
(***************************************************************************)
Ev(e, o, r) == [e |-> e, o |-> o, r |-> r]

LogEv(st, e, o, r) == [st EXCEPT !.log = Append(@, Ev(e, o, r))]

StartState(h) ==
    [heap |-> h, cache |-> <<>>, log |-> <<>>, ret |-> Undefined, threw |-> FALSE]

CacheHas(st, o) == o \in DOMAIN st.cache

CacheGet(st, o) == st.cache[o]

\* cache.set(o, result)
CacheSet(st, o, r) ==
    [st EXCEPT !.cache = (o :> r) @@ @, !.log = Append(@, Ev("reg", o, r))]

\* return r from the call on o
Return(st, o, r) == [st EXCEPT !.ret = r, !.log = Append(@, Ev("ret", o, r))]

Throw(st) == [st EXCEPT !.threw = TRUE]

\* allocate rec; its reference is the new length of the heap
Alloc(st, rec) == [st EXCEPT !.heap = Append(@, rec)]

\* the source handed back where a new instance is due
ReturnNewAliasing(st, o, rec) == Return(st, o, o)

\* return a new instance built from rec
ReturnNew(st, o, rec) == Return(Alloc(st, rec), o, Len(st.heap) + 1)

\* ObjectValueOf.call(o): the primitive value the wrapper holds
ObjectValueOf(src) == src.payload

\* new Number(v), new String(v), new Boolean(v); a BigInt object becomes an
\* object created from BigInt.prototype that converts to the same value
BoxedCopy(src) ==
    IF src.ip = "BigInt"
    THEN [NewObj("Object", 0, "BigInt") EXCEPT !.payload = ObjectValueOf(src)]
    ELSE [Intrinsic(src.kind) EXCEPT !.payload = ObjectValueOf(src)]

\* new Date(o), new RegExp(o.source, o.flags), new DataView(slice of the
\* viewed window), new o.constructor(o), o.slice(0), Buffer.from(o)
\* a new instance of the kind that holds nothing
EmptyInstance(src) == Intrinsic(src.kind)

PayloadCopy(src) == [Intrinsic(src.kind) EXCEPT !.payload = src.payload]

\* instanceof follows the prototype: the object that BoxedCopy creates from
\* BigInt.prototype is an instance of BigInt as well
InstanceOfBoxed(h, o) == h[o].kind \in BoxedKinds \/ h[o].ip = "BigInt"
\* the test of the uncopyable kinds without the Promise
InstanceOfUncopyableNoPromise(h, o) ==
    h[o].kind \in {"WeakMap", "WeakSet", "SharedArrayBuffer"}

\* instanceof WeakMap, WeakSet, Promise or SharedArrayBuffer: return o
InstanceOfUncopyable(h, o) ==
    h[o].kind \in {"WeakMap", "WeakSet", "Promise", "SharedArrayBuffer"}
ArrayBufferIsView(h, o) == h[o].kind \in ViewKinds

RECURSIVE DeepClone(_, _)
RECURSIVE CloneElems(_, _, _, _)
RECURSIVE CloneEntries(_, _, _, _)
RECURSIVE CloneMembers(_, _, _, _)
RECURSIVE CloneProps(_, _, _, _, _)

\* for (let i = 0; i < o.length; i++) if (i in o) result[i] = deepClone(o[i])
CloneElems(st, o, r, i) ==
    IF i >= Len(st.heap[o].elems) THEN st
    ELSE IF ~ArrayHas(st.heap, o, i) THEN CloneElems(st, o, r, i + 1)
    ELSE LET s1 == DeepClone(st, ArrayGet(st.heap, o, i))
         IN  IF s1.threw THEN s1
             ELSE CloneElems([s1 EXCEPT !.heap = ArraySet(s1.heap, r, i, s1.ret)],
                             o, r, i + 1)

\* MapForEach: result.set(deepClone(k), deepClone(v)), j-th entry onwards
CloneEntries(st, o, r, j) ==
    IF j > Len(st.heap[o].mkeys) THEN st
    ELSE LET s1 == DeepClone(st, st.heap[o].mkeys[j])
         IN  IF s1.threw THEN s1
             ELSE LET s2 == DeepClone(s1, s1.heap[o].mvals[j])
                  IN  IF s2.threw THEN s2
                      ELSE CloneEntries(
                             [s2 EXCEPT !.heap = MapSet(s2.heap, r, s1.ret, s2.ret)],
                             o, r, j + 1)

\* SetForEach: result.add(deepClone(v)), j-th element onwards
CloneMembers(st, o, r, j) ==
    IF j > Len(st.heap[o].elems) THEN st
    ELSE LET s1 == DeepClone(st, st.heap[o].elems[j])
         IN  IF s1.threw THEN s1
             ELSE CloneMembers([s1 EXCEPT !.heap = SetAdd(s1.heap, r, s1.ret)],
                               o, r, j + 1)

\* for each own key that o has: Reflect.set(result, key, deepClone(o[key]))
CloneProps(st, o, r, keys, i) ==
    IF i > Len(keys) THEN st
    ELSE IF ~ReflectHas(st.heap, o, keys[i]) THEN CloneProps(st, o, r, keys, i + 1)
    ELSE LET s1 == DeepClone(st, ReflectGet(st.heap, o, keys[i]))
         IN  IF s1.threw THEN s1
             ELSE CloneProps(
                    [s1 EXCEPT !.heap = ReflectSet(s1.heap, r, keys[i], s1.ret).heap],
                    o, r, keys, i + 1)

DeepClone(st, o) ==
    LET s0 == LogEv(st, "call", o, Undefined)
        h == st.heap
        new == Len(st.heap) + 1
    IN
    IF TypeOf(h, o) # "object" \/ o = Null THEN Return(s0, o, o)
    ELSE IF CacheHas(s0, o) THEN Return(s0, o, CacheGet(s0, o))
    ELSE IF InstanceOfBoxed(h, o) THEN ReturnNew(s0, o, BoxedCopy(h[o]))
    ELSE IF h[o].kind = "Array" THEN
        LET s1 == CloneElems(CacheSet(Alloc(s0, Intrinsic("Array")), o, new), o, new, 0)
        IN  IF s1.threw THEN s1 ELSE Return(s1, o, new)
    ELSE IF h[o].kind = "Map" THEN
        LET s1 == CloneEntries(CacheSet(Alloc(s0, Intrinsic("Map")), o, new), o, new, 1)
        IN  IF s1.threw THEN s1 ELSE Return(s1, o, new)
    ELSE IF h[o].kind = "Set" THEN
        LET s1 == CloneMembers(CacheSet(Alloc(s0, Intrinsic("Set")), o, new), o, new, 1)
        IN  IF s1.threw THEN s1 ELSE Return(s1, o, new)
    ELSE IF h[o].kind \in {"Date", "RegExp"} THEN ReturnNew(s0, o, PayloadCopy(h[o]))
    ELSE IF InstanceOfUncopyable(h, o) THEN Return(s0, o, o)
    ELSE IF h[o].kind = "WeakRef" THEN
        \* new WeakRef(x) throws a TypeError unless x is an object
        LET s1 == DeepClone(s0, h[o].target)
        IN  IF s1.threw THEN s1
            ELSE IF ~IsRef(s1.ret) THEN Throw(s1)
            ELSE ReturnNew(s1, o, [Intrinsic("WeakRef") EXCEPT !.target = s1.ret])
    ELSE IF ArrayBufferIsView(h, o) \/ h[o].kind = "ArrayBuffer"
         THEN ReturnNew(s0, o, PayloadCopy(h[o]))
    ELSE
        LET s1 == CloneProps(
                    CacheSet(Alloc(s0, ObjectCreate(ReflectGetPrototypeOf(h, o))), o, new),
                    o, new, ReflectOwnKeys(h, o), 1)
        IN  IF s1.threw THEN s1 ELSE Return(s1, o, new)

(***************************************************************************)
(* The source heaps.  Five families: a container that holds one object of  *)
(* any kind twice, a container of NumSlots slots over itself and a second  *)
(* object, chains of NumObjs one-slot objects, arrays with absent indices, *)
(* and generic objects with a prototype that has properties of its own.    *)
(***************************************************************************)
ContainerKinds == CollectionKinds \cup {"Object"}
LeafKinds == PayloadKinds \cup AliasedKinds \cup {"Function"}

Ids == 1..NumObjs

\* the indices of the first occurrences of the values of sl
FirstIdx(sl) ==
    SelectSeq([i \in 1..Len(sl) |-> i],
              LAMBDA i : sl[i] # Hole /\ \A j \in 1..(i - 1) : sl[j] # sl[i])

\* a container of the given kind holding the values of sl: properties
\* KeyOrder[i] = sl[i], elements sl, members sl, entries sl[i] -> sl[i+1]
Container(kind, sl) ==
    LET n == Len(sl)
        fi == FirstIdx(sl)
        nxt(i) == IF sl[(i % n) + 1] = Hole THEN Undefined ELSE sl[(i % n) + 1]
    IN  CASE kind = "Object" ->
               [Intrinsic("Object") EXCEPT !.props =
                   [k \in Keys |->
                       IF \E i \in 1..n : KeyOrder[i] = k /\ sl[i] # Hole
                       THEN PlainProp(sl[CHOOSE i \in 1..n : KeyOrder[i] = k])
                       ELSE NoProp]]
          [] kind = "Array" -> [Intrinsic("Array") EXCEPT !.elems = sl]
          [] kind = "Set" ->
               [Intrinsic("Set") EXCEPT !.elems = [j \in 1..Len(fi) |-> sl[fi[j]]]]
          [] kind = "Map" ->
               [Intrinsic("Map") EXCEPT !.mkeys = [j \in 1..Len(fi) |-> sl[fi[j]]],
                                        !.mvals = [j \in 1..Len(fi) |-> nxt(fi[j])]]

Leaf(kind) == [Intrinsic(kind) EXCEPT !.payload = 1]

WeakRefTo(t) == [Intrinsic("WeakRef") EXCEPT !.target = t]

\* a container (1) that holds the same object (2) twice; 2 is of any kind
\* without children
ShareHeaps ==
    {<<Container(kind, <<2, 2>>), Leaf(k)>> : kind \in ContainerKinds, k \in LeafKinds}

\* what a slot of the first object of a fan holds
SlotVals == {Hole, AString, 1, 2}

SlotVecs(n) == [1..n -> SlotVals]

\* the second object of a fan: duplicable or handed back, a WeakRef to the
\* first or to a collected target, a container of the first or of itself
FanSecond ==
    {Leaf("Date"), Leaf("Promise"), WeakRefTo(1), WeakRefTo(Undefined)}
      \cup {Container(kind, <<v>>) : kind \in ContainerKinds, v \in {1, 2}}

\* a container (1) of NumSlots slots over itself and a second object (2)
FanHeaps ==
    {<<Container(kind, sl), x>> :
        kind \in ContainerKinds, sl \in SlotVecs(NumSlots), x \in FanSecond}

\* the objects the id-th object of a chain may be: one slot each
ObjChoices(id) ==
    {Container(kind, <<v>>) : kind \in {"Object", "Array"}, v \in {Hole} \cup Ids}
      \cup {WeakRefTo(t) : t \in ({Undefined} \cup Ids) \ {id}}
      \cup {Leaf("Date")}

RECURSIVE HeapsUpTo(_)
HeapsUpTo(n) ==
    IF n = 0 THEN {<<>>}
    ELSE {Append(h, x) : h \in HeapsUpTo(n - 1), x \in ObjChoices(n)}

\* a WeakRef is given its target when it is constructed and keeps it: no
\* chain of WeakRefs leads back to its first WeakRef
RECURSIVE WeakChainEnds(_, _, _)
WeakChainEnds(h, v, n) ==
    IF ~IsRef(v) \/ h[v].kind # "WeakRef" THEN TRUE
    ELSE IF n = 0 THEN FALSE
    ELSE WeakChainEnds(h, h[v].target, n - 1)

\* NumObjs objects of one slot each, linked in every way
ChainHeaps == {h \in HeapsUpTo(NumObjs) : \A o \in Ids : WeakChainEnds(h, o, NumObjs)}

GraphHeaps == ShareHeaps \cup FanHeaps \cup ChainHeaps

\* arrays of every length up to MaxLen whose indices are absent, undefined,
\* a string, the array itself or a Date
ArrayElemVals == {Hole, Undefined, AString, 1, 2}

ArrayHeaps ==
    {<<[Intrinsic("Array") EXCEPT !.elems = el], Leaf("Date")>>
        : el \in UNION {[1..n -> ArrayElemVals] : n \in 0..MaxLen}}

\* a generic object (1) whose prototype (2) is an object of the heap: own
\* properties that are data properties (enumerable or not) or accessors,
\* over inherited ones that are writable, read-only or getter-only
OwnChoices(k) ==
    CASE k = "a" -> {NoProp, PlainProp(AString), PlainProp(1),
                     DataProp(AString, TRUE, FALSE, TRUE),
                     AccProp(TRUE, FALSE, TRUE, TRUE), AccProp(TRUE, TRUE, TRUE, TRUE)}
      [] k = "_v" -> {NoProp, PlainProp(ANumber), PlainProp(2)}
      [] OTHER -> {NoProp, PlainProp(AString)}

InheritedChoices(k) ==
    CASE k = "a" -> {NoProp, PlainProp(ANumber), DataProp(ANumber, FALSE, TRUE, FALSE),
                     AccProp(TRUE, FALSE, TRUE, TRUE)}
      [] k = "_v" -> {NoProp, PlainProp(ABoolean), DataProp(ABoolean, FALSE, TRUE, FALSE)}
      [] OTHER -> {NoProp, DataProp(ANumber, FALSE, TRUE, FALSE)}

ProtoHeaps ==
    {<<[NewObj("Object", 2, "") EXCEPT !.props = own],
       [Intrinsic("Object") EXCEPT !.props = inh]>>
        : own \in {f \in [Keys -> UNION {OwnChoices(k) : k \in Keys}] :
                      \A k \in Keys : f[k] \in OwnChoices(k)},
          inh \in {f \in [Keys -> UNION {InheritedChoices(k) : k \in Keys}] :
                      \A k \in Keys : f[k] \in InheritedChoices(k)}}

(***************************************************************************)
(* The state: the heap, the last call of the library with its argument,    *)
(* its outcome and the heap it started from, the number of calls made, and *)
(* what each clone call so far was given and handed back.                  *)
(***************************************************************************)
VARIABLES heap, call, nCalls, done

vars == <<heap, call, nCalls, done>>

NoCall ==
    [op |-> "none", arg |-> Undefined, ret |-> Undefined, threw |-> FALSE,
     pre |-> <<>>, cache |-> <<>>, log |-> <<>>]

Init ==
    /\ heap \in GraphHeaps \cup ArrayHeaps \cup ProtoHeaps
    /\ call = NoCall
    /\ nCalls = 0
    /\ done = <<>>

\* a cache that outlives the call: the one the call before left
StartStateShared(h) == [StartState(h) EXCEPT !.cache = call.cache]

\* new WeakMapConstructor(): the cache of one call of clone
NewCache(h) == StartState(h)

\* ReflectDeep.clone(obj): deepClone(new WeakMap(), obj)
CloneCall(obj) ==
    LET st == DeepClone(NewCache(heap), obj)
    IN  /\ heap' = st.heap
        /\ call' = [op |-> "clone", arg |-> obj, ret |-> st.ret,
                    threw |-> st.threw, pre |-> heap, cache |-> st.cache,
                    log |-> st.log]
        /\ nCalls' = nCalls + 1
        /\ done' = Append(done, [arg |-> obj, ret |-> st.ret, threw |-> st.threw,
                                 base |-> Len(heap), log |-> st.log])

Clone(obj) == nCalls < MaxCalls /\ CloneCall(obj)

Next == \E obj \in Atoms \cup (1..Len(heap)) : Clone(obj)

Spec == Init /\ [][Next]_vars

(***************************************************************************)
(* Vocabulary of the properties.                                           *)
(***************************************************************************)
\* the last call was a clone that returned
Cloned == call.op = "clone" /\ ~call.threw

\* kinds clone hands back as the identical reference
AsIsKinds == {"Function", "WeakMap", "WeakSet", "Promise", "SharedArrayBuffer"}

IsAsIs(h, v) == ~IsRef(v) \/ h[v].kind \in AsIsKinds

\* a composite that clone duplicates
IsDuplicable(h, v) == IsRef(v) /\ h[v].kind \notin AsIsKinds

\* allocated by the last call
IsFresh(v) == IsRef(v) /\ v > Len(call.pre)

Range(s) == {s[i] : i \in 1..Len(s)}

\* the values an object holds: own properties as they read, elements,
\* members, entries, and what a WeakRef dereferences to
Held(h, x) ==
    {ReflectGet(h, x, k) : k \in Range(ReflectOwnKeys(h, x))}
      \cup (Range(h[x].elems) \ {Hole}) \cup Range(h[x].mkeys) \cup Range(h[x].mvals)
      \cup (IF h[x].kind = "WeakRef" THEN {h[x].target} ELSE {})

\* the objects reachable from the objects of S, functions and the opaque
\* kinds not being looked into
RECURSIVE ReachSet(_, _)
ReachSet(h, S) ==
    LET T == S \cup {v \in UNION {Held(h, x) : x \in {y \in S : IsDuplicable(h, y)}} : IsRef(v)}
    IN  IF T = S THEN S ELSE ReachSet(h, T)

Reach(h, v) == IF IsRef(v) THEN ReachSet(h, {v}) ELSE {}

\* o lies on a cycle of h
OnCycle(h, o) ==
    IsDuplicable(h, o) /\ \E v \in Held(h, o) : IsRef(v) /\ o \in Reach(h, v)

\* the returns of the calls of deepClone: <<argument, value returned>>
Returns == {<<call.log[i].o, call.log[i].r>> :
               i \in {j \in 1..Len(call.log) : call.log[j].e = "ret"}}

\* the number of entries into deepClone
Entries == Cardinality({j \in 1..Len(call.log) : call.log[j].e = "call"})

\* the number of values an object holds
OutDegree(h, x) ==
    CASE h[x].kind = "Array" -> Cardinality({i \in 1..Len(h[x].elems) : h[x].elems[i] # Hole})
      [] h[x].kind = "Map" -> 2 * Len(h[x].mkeys)
      [] h[x].kind = "Set" -> Len(h[x].elems)
      [] h[x].kind = "WeakRef" -> 1
      [] h[x].kind = "Object" -> Len(ReflectOwnKeys(h, x))
      [] OTHER -> 0

RECURSIVE SumDegrees(_, _)
SumDegrees(h, S) ==
    IF S = {} THEN 0
    ELSE LET x == CHOOSE y \in S : TRUE
         IN  OutDegree(h, x) + SumDegrees(h, S \ {x})

\* the number of edges of the graph reachable from v
Edges(h, v) == SumDegrees(h, Reach(h, v))

(***************************************************************************)
(* C1.  Cycle safety: when the source o lies on a cycle, clone(o) is not   *)
(* o, and every reference back to o is, in the clone, a reference to the   *)
(* clone itself: each call of deepClone on o returned the clone that the   *)
(* whole call returned, and o is not reachable from the clone.             *)
(***************************************************************************)
CycleSafe ==
    (Cloned /\ OnCycle(call.pre, call.arg)) =>
        /\ call.ret # call.arg
        /\ call.arg \notin Reach(heap, call.ret)
        /\ \A p \in Returns : p[1] = call.arg => p[2] = call.ret

(***************************************************************************)
(* C2.  Shared references: every composite of the source that clone        *)
(* duplicates has one clone in the result, whatever the number of paths    *)
(* that lead to it: all the calls of deepClone on it return the same       *)
(* object.                                                                 *)
(***************************************************************************)
SharedPreserved ==
    Cloned => \A p, q \in Returns : p[1] = q[1] => p[2] = q[2]

(***************************************************************************)
(* C3.  clone terminates, and the recursive entries into deepClone (all    *)
(* entries but the first) are at most the edges of the source graph.       *)
(***************************************************************************)
EntriesBounded ==
    call.op = "clone" => Entries - 1 <= Edges(call.pre, call.arg)

\* index i of array a is present
Present(h, a, i) == i < Len(h[a].elems) /\ h[a].elems[i + 1] # Hole

\* the <<source, clone>> pairs of the composites of the given kind
ClonesOf(kind) ==
    {p \in Returns : IsRef(p[1]) /\ IsFresh(p[2]) /\ call.pre[p[1]].kind = kind}

\* w is the clone of v: v itself where v is handed back as it is, else an
\* object allocated by this call that deepClone returned for v, of v's kind
\* and payload, and the one the cache records for v
IsCloneOf(v, w) ==
    IF IsAsIs(call.pre, v) THEN w = v
    ELSE /\ IsFresh(w)
         /\ <<v, w>> \in Returns
         /\ heap[w].kind = (IF call.pre[v].kind = "BigInt" THEN "Object"
                            ELSE call.pre[v].kind)
         /\ heap[w].payload = call.pre[v].payload
         /\ v \in DOMAIN call.cache => call.cache[v] = w

(***************************************************************************)
(* C4.  Independence: the clone of a composite that is not handed back as  *)
(* it is, is another object; no composite reachable from the clone is a    *)
(* composite reachable from the source, except those handed back as they   *)
(* are; and an assignment to a property, element or entry of an object of  *)
(* the clone leaves every object reachable from the source as it was.      *)
(***************************************************************************)
\* the heaps after one assignment to object x
Assignments(h, x) ==
    {ReflectSet(h, x, k, ANumber).heap : k \in Keys}
      \cup {ArraySet(h, x, 0, ANumber), MapSet(h, x, ANumber, ANumber),
            SetAdd(h, x, ANumber)}

Independent ==
    (Cloned /\ IsDuplicable(call.pre, call.arg)) =>
        /\ call.ret # call.arg
        /\ \A x \in Reach(heap, call.ret) :
              /\ x \in Reach(call.pre, call.arg) => heap[x].kind \in AsIsKinds
              /\ IsDuplicable(heap, x) =>
                    \A h2 \in Assignments(heap, x) :
                        \A o \in Reach(call.pre, call.arg) : h2[o] = call.pre[o]

\* a clone of three objects was made of a source with a cycle
IndependentWitness ==
    /\ Cloned /\ IsDuplicable(call.pre, call.arg)
    /\ Cardinality(Reach(heap, call.ret)) >= 3
    /\ OnCycle(call.pre, call.arg)

GapsKept ==
    Cloned =>
        \A p \in ClonesOf("Array") :
            \A i \in 0..(Len(call.pre[p[1]].elems) - 1) :
                /\ Present(heap, p[2], i) <=> Present(call.pre, p[1], i)
                /\ Present(call.pre, p[1], i) =>
                      IsCloneOf(ArrayGet(call.pre, p[1], i), ArrayGet(heap, p[2], i))

\* an array with an absent index before a present one was cloned
GapsKeptWitness ==
    /\ Cloned /\ IsRef(call.arg) /\ call.pre[call.arg].kind = "Array"
    /\ \E i \in 0..1 : /\ ~Present(call.pre, call.arg, i)
                       /\ Present(call.pre, call.arg, i + 1)
                       /\ Present(heap, call.ret, i + 1)

(***************************************************************************)
(* C7.  The clone of an array has the length of the source array.          *)
(***************************************************************************)
LengthKept ==
    Cloned =>
        \A p \in ClonesOf("Array") :
            Len(heap[p[2]].elems) = Len(call.pre[p[1]].elems)

(***************************************************************************)
(* C8.  The clone of a Map has the entries of the source, key and value    *)
(* each the clone of the source's, and the clone of a Set the elements of  *)
(* the source; no two keys or elements of the clone are the same.          *)
(***************************************************************************)
Distinct(s) == \A i, j \in 1..Len(s) : s[i] = s[j] => i = j

EntriesKept ==
    Cloned =>
        /\ \A p \in ClonesOf("Map") :
              LET src == call.pre[p[1]]
                  dst == heap[p[2]]
              IN  /\ Len(dst.mkeys) = Len(src.mkeys)
                  /\ Len(dst.mvals) = Len(src.mvals)
                  /\ Distinct(dst.mkeys)
                  /\ \A j \in 1..Len(src.mkeys) :
                        /\ IsCloneOf(src.mkeys[j], dst.mkeys[j])
                        /\ IsCloneOf(src.mvals[j], dst.mvals[j])
        /\ \A p \in ClonesOf("Set") :
              LET src == call.pre[p[1]]
                  dst == heap[p[2]]
              IN  /\ Len(dst.elems) = Len(src.elems)
                  /\ Distinct(dst.elems)
                  /\ \A j \in 1..Len(src.elems) : IsCloneOf(src.elems[j], dst.elems[j])

\* a Map with two composite keys, the Map itself and a Date, was cloned
EntriesKeptWitness ==
    /\ Cloned /\ IsRef(call.arg) /\ call.pre[call.arg].kind = "Map"
    /\ Len(heap[call.ret].mkeys) = 2
    /\ \E j \in 1..2 : heap[call.ret].mkeys[j] = call.ret
    /\ \E j \in 1..2 : /\ IsRef(heap[call.ret].mkeys[j])
                       /\ heap[heap[call.ret].mkeys[j]].kind = "Date"

(***************************************************************************)
(* C9.  The clone of a generic object has the prototype of the source,     *)
(* the identical object; what the source inherits the clone inherits and   *)
(* does not own.                                                           *)
(***************************************************************************)
PrototypeKept ==
    Cloned =>
        \A p \in ClonesOf("Object") :
            /\ heap[p[2]].proto = call.pre[p[1]].proto
            /\ heap[p[2]].ip = call.pre[p[1]].ip
            /\ ~IsFresh(heap[p[2]].proto)
            /\ \A k \in Keys :
                  (call.pre[p[1]].props[k].t = "none" /\ ReflectHas(call.pre, p[1], k))
                  => /\ heap[p[2]].props[k].t = "none"
                     /\ ReflectHas(heap, p[2], k)
                     /\ FindHolder(heap, p[2], k) = FindHolder(call.pre, p[1], k)

\* an object that inherits a property of its prototype was cloned
PrototypeKeptWitness ==
    /\ Cloned /\ IsFresh(call.ret) /\ heap[call.ret].kind = "Object"
    /\ heap[call.ret].proto >= 1
    /\ \E k \in Keys : /\ heap[call.ret].props[k].t = "none"
                       /\ ReflectHas(heap, call.ret, k)
    /\ \E k \in Keys : heap[call.ret].props[k].t # "none"

(***************************************************************************)
(* C10.  The own keys of the clone of a generic object are the own keys of *)
(* the source, and under each the clone holds the clone of what the source *)
(* holds.                                                                  *)
(***************************************************************************)
OwnKeysCopied ==
    Cloned =>
        \A p \in ClonesOf("Object") :
            /\ ReflectOwnKeys(heap, p[2]) = ReflectOwnKeys(call.pre, p[1])
            /\ \A k \in Range(ReflectOwnKeys(call.pre, p[1])) :
                  IsCloneOf(ReflectGet(call.pre, p[1], k), ReflectGet(heap, p[2], k))

(***************************************************************************)
(* C11.  clone raises no error: every call of clone returns a value,       *)
(* whatever the kinds of the objects of the source graph, a WeakRef        *)
(* included.                                                               *)
(***************************************************************************)
CloneReturns == call.op = "clone" => ~call.threw

(***************************************************************************)
(* Repeated cloning: clone called again and again on the objects of a      *)
(* heap of two objects, among them the clones of the earlier calls.        *)
(***************************************************************************)
\* a container that holds itself and a second container, which holds the
\* first or is a WeakRef to it
CycleHeaps ==
    {<<Container(k1, <<1, 2>>), x>> :
        k1 \in ContainerKinds,
        x \in {Container(k2, <<1>>) : k2 \in ContainerKinds} \cup {WeakRefTo(1)}}

RepeatInit ==
    /\ heap \in ShareHeaps \cup CycleHeaps
    /\ call = NoCall
    /\ nCalls = 0
    /\ done = <<>>

CloneAgain(obj) == nCalls < MaxRepeat /\ CloneCall(obj)

RepeatNext == \E obj \in Atoms \cup (1..Len(heap)) : CloneAgain(obj)

RepeatSpec == RepeatInit /\ [][RepeatNext]_vars

\* the calls of clone before the last one
Earlier == {done[i] : i \in 1..(Len(done) - 1)}

\* reference r of a call that started with base objects, as it reads in a
\* call that started with base2 objects: what the call allocated is shifted
Shifted(r, base, base2) == IF r > base THEN r + (base2 - base) ELSE r

\* the call d went as the last call did: the same entries, registrations
\* and returns on the same objects, the objects allocated apart
SameOutcome(d) ==
    /\ d.threw = call.threw
    /\ Len(d.log) = Len(call.log)
    /\ \A i \in 1..Len(d.log) :
          /\ d.log[i].e = call.log[i].e
          /\ d.log[i].o = call.log[i].o
          /\ Shifted(d.log[i].r, d.base, Len(call.pre)) = call.log[i].r

(***************************************************************************)
(* C12.  The cache belongs to one call: clone(v) of a composite that clone *)
(* duplicates returns an object allocated by this call, so it is neither v *)
(* nor what an earlier call returned for v, and the call goes as each      *)
(* earlier call on v went.                                                 *)
(***************************************************************************)
CachePerCall ==
    (Cloned /\ IsDuplicable(call.pre, call.arg)) =>
        /\ IsFresh(call.ret)
        /\ call.ret # call.arg
        /\ \A d \in Earlier : d.arg = call.arg => (d.ret # call.ret /\ SameOutcome(d))

\* a composite on a cycle was cloned a second time
CachePerCallWitness ==
    /\ Cloned /\ OnCycle(call.pre, call.arg)
    /\ \E d \in Earlier : d.arg = call.arg /\ ~d.threw /\ d.ret # call.ret

(***************************************************************************)
(* The path operations: has, get, set, reach, deleteProperty and           *)
(* defineProperty walk a path of property keys from a target.  The keys    *)
(* argument is a record: whether it is an array, and its items.  An item   *)
(* is a key of Keys or BadKey, a value that is no property key.            *)
(***************************************************************************)
\* longest path
MaxPath == 2
MaxReads == 2

BadKey == "!o"

\* typeof of an item of the keys argument
ItemTypeOf(k) ==
    IF k = "@s" THEN "symbol" ELSE IF k \in Keys THEN "string" ELSE "object"

\* isPrimitive(o)
IsPrimitive(h, o) == (TypeOf(h, o) # "object" \/ o = Null) /\ TypeOf(h, o) # "function"

\* expectTargetAndKeys(f, o, keys) throws
ExpectTargetAndKeys(h, o, keys) ==
    \/ IsPrimitive(h, o)
    \/ ~keys.isArray
    \/ Len(keys.items) = 0
    \/ \E i \in 1..Len(keys.items) :
          ItemTypeOf(keys.items[i]) \notin {"string", "symbol", "number"}

\* expectTarget(f, o) throws
ExpectTarget(h, o) == IsPrimitive(h, o)

\* the outcome of an operation: the heap it leaves, what it returns, and
\* whether a TypeError left it
Out(h, ret) == [heap |-> h, ret |-> ret, threw |-> FALSE]
Thrown(h) == [heap |-> h, ret |-> Undefined, threw |-> TRUE]

\* a removal that takes no notice of configurable
DeleteWhatever(h, o, k) == [heap |-> [h EXCEPT ![o].props[k] = NoProp], ok |-> TRUE]

\* Reflect.deleteProperty(o, k)
ReflectDeleteProperty(h, o, k) ==
    IF h[o].props[k].t = "none" THEN [heap |-> h, ok |-> TRUE]
    ELSE IF h[o].props[k].c THEN [heap |-> [h EXCEPT ![o].props[k] = NoProp], ok |-> TRUE]
    ELSE [heap |-> h, ok |-> FALSE]

\* A descriptor argument: the fields it has (hasV, hasW, hasE, hasC, and
\* hg, hs for get and set) and their values.  t is "data" where it has
\* value or writable, "acc" where it has get or set, "generic" where it
\* has neither, "bad" where it has both.
Desc(t, hasV, v, hasW, w, hasE, e, hasC, c, hg, hs) ==
    [t |-> t, hasV |-> hasV, v |-> v, hasW |-> hasW, w |-> w, hasE |-> hasE,
     e |-> e, hasC |-> hasC, c |-> c, hg |-> hg, hs |-> hs]

\* the property a descriptor defines where there is none
FromDesc(d) ==
    IF d.t = "acc" THEN AccProp(d.hg, d.hs, d.hasE /\ d.e, d.hasC /\ d.c)
    ELSE DataProp(IF d.hasV THEN d.v ELSE Undefined,
                  d.hasW /\ d.w, d.hasE /\ d.e, d.hasC /\ d.c)

\* the property cur after the fields of d are applied to it
Applied(cur, d) ==
    LET e == IF d.hasE THEN d.e ELSE cur.e
        c == IF d.hasC THEN d.c ELSE cur.c
    IN  IF d.t = "acc"
        THEN AccProp(IF cur.t = "acc" THEN (d.hg \/ cur.hg) ELSE d.hg,
                     IF cur.t = "acc" THEN (d.hs \/ cur.hs) ELSE d.hs, e, c)
        ELSE IF d.t = "data" /\ cur.t = "acc"
        THEN DataProp(IF d.hasV THEN d.v ELSE Undefined, d.hasW /\ d.w, e, c)
        ELSE IF cur.t = "acc" THEN AccProp(cur.hg, cur.hs, e, c)
        ELSE DataProp(IF d.hasV THEN d.v ELSE cur.v, IF d.hasW THEN d.w ELSE cur.w, e, c)

\* ValidateAndApplyPropertyDescriptor refuses d on the own property cur,
\* which is not configurable; a get or set function of d is never the
\* function cur has
Refused(cur, d) ==
    \/ d.hasC /\ d.c
    \/ d.hasE /\ d.e # cur.e
    \/ d.t # "generic" /\ d.t # cur.t
    \/ cur.t = "acc" /\ (d.hg \/ d.hs)
    \/ cur.t = "data" /\ ~cur.w /\ ((d.hasW /\ d.w) \/ (d.hasV /\ d.v # cur.v))

\* Reflect.defineProperty(o, k, d); ToPropertyDescriptor throws a TypeError
\* on a descriptor with both accessor and data fields
ReflectDefineProperty(h, o, k, d) ==
    LET cur == h[o].props[k]
    IN  IF d.t = "bad" THEN [heap |-> h, ok |-> FALSE, threw |-> TRUE]
        ELSE IF cur.t = "none"
        THEN IF h[o].ext
             THEN [heap |-> [h EXCEPT ![o].props[k] = FromDesc(d)], ok |-> TRUE, threw |-> FALSE]
             ELSE [heap |-> h, ok |-> FALSE, threw |-> FALSE]
        ELSE IF ~cur.c /\ Refused(cur, d) THEN [heap |-> h, ok |-> FALSE, threw |-> FALSE]
        ELSE [heap |-> [h EXCEPT ![o].props[k] = Applied(cur, d)], ok |-> TRUE, threw |-> FALSE]

\* ReflectDeep.has: the loop from the (i-1)-th key of p on, at current
RECURSIVE HasFrom(_, _, _, _)
HasFrom(h, current, p, i) ==
    IF i = Len(p) THEN ReflectHas(h, current, p[i])
    ELSE IF ~ReflectHas(h, current, p[i]) THEN FALSE
    ELSE LET next == ReflectGet(h, current, p[i])
         IN  IF IsPrimitive(h, next) THEN FALSE ELSE HasFrom(h, next, p, i + 1)

\* ReflectDeep.get with the default receiver
RECURSIVE GetFrom(_, _, _, _)
GetFrom(h, current, p, i) ==
    IF i = Len(p) THEN ReflectGet(h, current, p[i])
    ELSE IF ~ReflectHas(h, current, p[i]) THEN Undefined
    ELSE LET next == ReflectGet(h, current, p[i])
         IN  IF IsPrimitive(h, next) THEN Undefined ELSE GetFrom(h, next, p, i + 1)

\* get that returns null where the path does not resolve
GetOrNull(h, target, keys) ==
    IF ExpectTargetAndKeys(h, target, keys) THEN Thrown(h)
    ELSE Out(h, IF HasFrom(h, target, keys.items, 1)
                THEN GetFrom(h, target, keys.items, 1) ELSE Null)

\* get that stores undefined under the first key where the target lacks it
GetDefaulting(h, target, keys) ==
    IF ExpectTargetAndKeys(h, target, keys) THEN Thrown(h)
    ELSE Out(IF ReflectHas(h, target, keys.items[1]) THEN h
             ELSE ReflectSet(h, target, keys.items[1], Undefined).heap,
             GetFrom(h, target, keys.items, 1))

Get(h, target, keys) ==
    IF ExpectTargetAndKeys(h, target, keys) THEN Thrown(h)
    ELSE Out(h, GetFrom(h, target, keys.items, 1))

\* has in terms of get: a key that holds undefined is taken for absent
HasByValue(h, target, keys) ==
    IF ExpectTargetAndKeys(h, target, keys) THEN Thrown(h)
    ELSE Out(h, GetFrom(h, target, keys.items, 1) # Undefined)

Has(h, target, keys) ==
    IF ExpectTargetAndKeys(h, target, keys) THEN Thrown(h)
    ELSE Out(h, HasFrom(h, target, keys.items, 1))

\* a result that reports the final key reached wherever the walk stopped
ReachedWhatever(value, index, reached) ==
    [value |-> value, index |-> index, reached |-> TRUE]

\* the result of reach; index counts from 0 as in the source
ReachResult(value, index, reached) ==
    [value |-> value, index |-> index, reached |-> reached]

\* ReflectDeep.reach with the default receiver; the i-th key of the source
\* is p[i + 1]
RECURSIVE ReachFrom(_, _, _, _)
ReachFrom(h, current, p, i) ==
    IF i >= Len(p) THEN ReachResult(current, 0 - 1, FALSE)
    ELSE IF ~ReflectHas(h, current, p[i + 1]) THEN ReachResult(current, i - 1, FALSE)
    ELSE IF i = Len(p) - 1 THEN ReachResult(ReflectGet(h, current, p[i + 1]), i, TRUE)
    ELSE LET next == ReflectGet(h, current, p[i + 1])
         IN  IF IsPrimitive(h, next) THEN ReachResult(next, i, FALSE)
             ELSE ReachFrom(h, next, p, i + 1)

\* reach that reports the index of the absent key, not of the key before it
ReachAtKey(h, target, keys) ==
    IF ExpectTargetAndKeys(h, target, keys) THEN Thrown(h)
    ELSE LET r == ReachFrom(h, target, keys.items, 0)
         IN  Out(h, IF ~r.reached /\ ~IsPrimitive(h, r.value)
                    THEN [r EXCEPT !.index = r.index + 1] ELSE r)

\* the return statement a walk of reach leaves by: the key is absent, the
\* final key is there, the value under a non-final key is atomic, or the
\* statement after the loop
RECURSIVE ReachReturn(_, _, _, _)
ReachReturn(h, current, p, i) ==
    IF i >= Len(p) THEN "after"
    ELSE IF ~ReflectHas(h, current, p[i + 1]) THEN "absent"
    ELSE IF i = Len(p) - 1 THEN "final"
    ELSE LET next == ReflectGet(h, current, p[i + 1])
         IN  IF IsPrimitive(h, next) THEN "atomic"
             ELSE ReachReturn(h, next, p, i + 1)

\* reach that counts the keys from 1
ReachOneBased(h, target, keys) ==
    IF ExpectTargetAndKeys(h, target, keys) THEN Thrown(h)
    ELSE LET r == ReachFrom(h, target, keys.items, 0)
         IN  Out(h, [r EXCEPT !.index = r.index + 1])

ReachOp(h, target, keys) ==
    IF ExpectTargetAndKeys(h, target, keys) THEN Thrown(h)
    ELSE Out(h, ReachFrom(h, target, keys.items, 0))

\* ReflectDeep.set with the default receiver; {} is a new plain object
RECURSIVE SetFrom(_, _, _, _, _)
SetFrom(h, current, p, i, value) ==
    IF i = Len(p)
    THEN LET s == ReflectSet(h, current, p[i], value) IN Out(s.heap, s.ok)
    ELSE LET s == IF ~ReflectHas(h, current, p[i])
                  THEN ReflectSet(Append(h, Intrinsic("Object")), current, p[i], Len(h) + 1)
                  ELSE [heap |-> h, ok |-> TRUE]
             next == ReflectGet(s.heap, current, p[i])
         IN  IF ~s.ok THEN Out(s.heap, FALSE)
             ELSE IF IsPrimitive(s.heap, next) THEN Out(s.heap, FALSE)
             ELSE SetFrom(s.heap, next, p, i + 1, value)

\* set that creates no container: false where a non-final key is absent
SetWithoutCreating(h, target, keys, value) ==
    IF ExpectTargetAndKeys(h, target, keys) THEN Thrown(h)
    ELSE IF Len(keys.items) > 1
            /\ ~HasFrom(h, target, SubSeq(keys.items, 1, Len(keys.items) - 1), 1)
    THEN Out(h, FALSE)
    ELSE SetFrom(h, target, keys.items, 1, value)

\* set that reports success whatever became of the walk
SetReportsTrue(h, target, keys, value) ==
    IF ExpectTargetAndKeys(h, target, keys) THEN Thrown(h)
    ELSE Out(SetFrom(h, target, keys.items, 1, value).heap, TRUE)

SetOp(h, target, keys, value) ==
    IF ExpectTargetAndKeys(h, target, keys) THEN Thrown(h)
    ELSE SetFrom(h, target, keys.items, 1, value)

\* ReflectDeep.deleteProperty
RECURSIVE DeleteFrom(_, _, _, _)
DeleteFrom(h, current, p, i) ==
    IF i = Len(p)
    THEN LET s == ReflectDeleteProperty(h, current, p[i]) IN Out(s.heap, s.ok)
    ELSE IF ~ReflectHas(h, current, p[i]) THEN Out(h, TRUE)
    ELSE LET next == ReflectGet(h, current, p[i])
         IN  IF IsPrimitive(h, next) THEN Out(h, FALSE)
             ELSE DeleteFrom(h, next, p, i + 1)

\* deleteProperty that returns false where the path does not lead to a
\* penultimate container
DeleteOrFalse(h, target, keys) ==
    IF ExpectTargetAndKeys(h, target, keys) THEN Thrown(h)
    ELSE IF Len(keys.items) > 1
            /\ ~HasFrom(h, target, SubSeq(keys.items, 1, Len(keys.items) - 1), 1)
    THEN Out(h, FALSE)
    ELSE DeleteFrom(h, target, keys.items, 1)

DeleteProperty(h, target, keys) ==
    IF ExpectTargetAndKeys(h, target, keys) THEN Thrown(h)
    ELSE DeleteFrom(h, target, keys.items, 1)

\* ReflectDeep.defineProperty
RECURSIVE DefineFrom(_, _, _, _, _)
DefineFrom(h, current, p, i, d) ==
    IF i = Len(p)
    THEN LET s == ReflectDefineProperty(h, current, p[i], d)
         IN  IF s.threw THEN Thrown(s.heap) ELSE Out(s.heap, s.ok)
    ELSE LET s == IF ~ReflectHas(h, current, p[i])
                  THEN ReflectSet(Append(h, Intrinsic("Object")), current, p[i], Len(h) + 1)
                  ELSE [heap |-> h, ok |-> TRUE]
             next == ReflectGet(s.heap, current, p[i])
         IN  IF ~s.ok THEN Out(s.heap, FALSE)
             ELSE IF IsPrimitive(s.heap, next) THEN Out(s.heap, FALSE)
             ELSE DefineFrom(s.heap, next, p, i + 1, d)

\* defineProperty as an assignment of the descriptor's value
DefineAsAssignment(h, target, keys, d) ==
    IF ExpectTargetAndKeys(h, target, keys) THEN Thrown(h)
    ELSE SetFrom(h, target, keys.items, 1, d.v)

DefineProperty(h, target, keys, d) ==
    IF ExpectTargetAndKeys(h, target, keys) THEN Thrown(h)
    ELSE DefineFrom(h, target, keys.items, 1, d)

\* The intrinsic prototypes are objects outside the heap: Object.prototype,
\* and the prototype of every other kind (Function.prototype, ...), whose
\* prototype is Object.prototype.  An object with proto = 0 has the one its
\* ip names.
ObjectPrototype == 0 - 20
OtherPrototype == 0 - 21

IntrinsicChain(ip) ==
    IF ip = "Object" THEN <<ObjectPrototype>> ELSE <<OtherPrototype, ObjectPrototype>>

\* the own keys of an intrinsic prototype, cut down to two
IntrinsicOwnKeys(p) ==
    IF p = ObjectPrototype THEN <<"constructor", "toString">> ELSE <<"constructor", "call">>

\* the keys of s followed by all those of t
AddEvery(s, t) == s \o t

\* the keys of s followed by those of t that s lacks: a Set filled in order
AddAll(s, t) == s \o SelectSeq(t, LAMBDA k : \A j \in 1..Len(s) : s[j] # k)

\* ReflectDeep.keys: the loop once the chain has left the heap
RECURSIVE KeysOfIntrinsics(_, _, _)
KeysOfIntrinsics(chain, i, keySet) ==
    IF i > Len(chain) THEN keySet
    ELSE KeysOfIntrinsics(chain, i + 1, AddAll(keySet, IntrinsicOwnKeys(chain[i])))

\* ReflectDeep.keys: the loop, proto being the object whose prototype is
\* looked at next
RECURSIVE KeysFrom(_, _, _)
KeysFrom(h, proto, keySet) ==
    LET next == ReflectGetPrototypeOf(h, proto)
    IN  IF next.proto # 0
        THEN KeysFrom(h, next.proto, AddAll(keySet, ReflectOwnKeys(h, next.proto)))
        ELSE KeysOfIntrinsics(IntrinsicChain(next.ip), 1, keySet)

KeysOp(h, target) ==
    IF ExpectTarget(h, target) THEN Thrown(h)
    ELSE Out(h, KeysFrom(h, target, ReflectOwnKeys(h, target)))

Layer(object, keys) == [object |-> object, keys |-> keys]

\* the layers without those of the intrinsic prototypes
HeapLayersOnly(chain, layers) == layers

\* ReflectDeep.groupedKeys: the loop once the chain has left the heap
LayersOfIntrinsics(chain, layers) ==
    layers \o [i \in 1..Len(chain) |-> Layer(chain[i], IntrinsicOwnKeys(chain[i]))]

\* ReflectDeep.groupedKeys: the loop, o being the object of the last layer
RECURSIVE LayersFrom(_, _, _)
LayersFrom(h, o, layers) ==
    LET proto == ReflectGetPrototypeOf(h, o)
    IN  IF proto.proto # 0
        THEN LayersFrom(h, proto.proto,
                        Append(layers, Layer(proto.proto, ReflectOwnKeys(h, proto.proto))))
        ELSE LayersOfIntrinsics(IntrinsicChain(proto.ip), layers)

GroupedKeys(h, target) ==
    IF ExpectTarget(h, target) THEN Thrown(h)
    ELSE Out(h, LayersFrom(h, target, <<Layer(target, ReflectOwnKeys(h, target))>>))

(***************************************************************************)
(* The targets of the path operations: a root (1) whose prototype is an    *)
(* object (3), a child (2) and a function (4).  Three families: what the   *)
(* root holds under "a", what the child holds under "a", and what the root *)
(* inherits.                                                               *)
(***************************************************************************)
Obj(proto, ext, pa, pv, ps) ==
    [NewObj("Object", proto, IF proto = 0 THEN "Object" ELSE "")
        EXCEPT !.ext = ext, !.props = [k \in Keys |->
                   IF k = "a" THEN pa ELSE IF k = "_v" THEN pv ELSE ps]]

\* what the root holds under "a": nothing, the child, the root itself, the
\* function, an atom, an accessor with or without getter, the child
\* read-only
RootA ==
    {NoProp, PlainProp(2), PlainProp(1), PlainProp(4), PlainProp(AString), PlainProp(Null),
     PlainProp(Undefined), AccProp(TRUE, TRUE, TRUE, TRUE),
     AccProp(FALSE, TRUE, TRUE, TRUE), DataProp(2, FALSE, TRUE, FALSE)}

\* what the child holds under "a"
ChildA ==
    {NoProp, PlainProp(Undefined), PlainProp(1), DataProp(AString, FALSE, TRUE, FALSE),
     DataProp(AString, TRUE, TRUE, FALSE), AccProp(FALSE, TRUE, TRUE, TRUE),
     AccProp(TRUE, FALSE, TRUE, FALSE), AccProp(TRUE, TRUE, TRUE, TRUE)}

\* what the prototype of the root holds under "a"
ProtoA ==
    {NoProp, PlainProp(2), DataProp(2, FALSE, TRUE, FALSE),
     AccProp(TRUE, TRUE, TRUE, TRUE), AccProp(TRUE, FALSE, TRUE, TRUE)}

PathHeap(root, child, proto) == <<root, child, proto, Leaf("Function")>>

WalkHeaps ==
    {PathHeap(Obj(3, ext, pa, pv, NoProp),
              Obj(0, TRUE, PlainProp(ANumber), NoProp, NoProp),
              Obj(0, TRUE, NoProp, NoProp, NoProp))
        : ext \in BOOLEAN, pa \in RootA, pv \in {NoProp, PlainProp(2)}}

TerminalHeaps ==
    {PathHeap(Obj(3, TRUE, PlainProp(2), NoProp, NoProp),
              Obj(0, ext, pa, pv, NoProp),
              Obj(0, TRUE, NoProp, NoProp, NoProp))
        : ext \in BOOLEAN, pa \in ChildA, pv \in {NoProp, PlainProp(AString)}}

InheritHeaps ==
    {PathHeap(Obj(3, ext, pa, NoProp, NoProp),
              Obj(0, TRUE, PlainProp(ANumber), NoProp, NoProp),
              Obj(0, TRUE, qa, NoProp, qs))
        : ext \in BOOLEAN, pa \in {NoProp, PlainProp(2)}, qa \in ProtoA,
          qs \in {NoProp, PlainProp(AString)}}

PathHeaps == WalkHeaps \cup TerminalHeaps \cup InheritHeaps

\* the targets: the objects of the heap, null and a string
PathTargets == {Null, AString} \cup (1..4)

\* the sequences over S of length 1 to n
RECURSIVE SeqsUpTo(_, _)
SeqsUpTo(S, n) ==
    IF n = 0 THEN {}
    ELSE SeqsUpTo(S, n - 1) \cup [1..n -> S]

KeysArg(isArray, items) == [isArray |-> isArray, items |-> items]

\* the keys arguments: paths of keys, paths with an item that is no key at
\* some place, the empty array, and a string in place of the array
KeysArgs ==
    {KeysArg(TRUE, p) : p \in SeqsUpTo(Keys \cup {BadKey}, MaxPath)}
      \cup {KeysArg(TRUE, <<>>), KeysArg(FALSE, <<"a">>)}

\* the values set is given: a number, undefined, and the child
SetVals == {ANumber, Undefined, 2}

\* the descriptors defineProperty is given: all fields of a data property,
\* value alone, the fields of a read-only data property, get and set, and
\* get together with value
NoDesc == Desc("generic", FALSE, Undefined, FALSE, FALSE, FALSE, FALSE, FALSE, FALSE, FALSE, FALSE)
Descs ==
    {Desc("data", TRUE, ANumber, TRUE, TRUE, TRUE, TRUE, TRUE, TRUE, FALSE, FALSE),
     Desc("data", TRUE, ANumber, FALSE, FALSE, FALSE, FALSE, FALSE, FALSE, FALSE, FALSE),
     Desc("data", TRUE, ANumber, TRUE, FALSE, TRUE, TRUE, TRUE, TRUE, FALSE, FALSE),
     Desc("acc", FALSE, Undefined, FALSE, FALSE, TRUE, TRUE, TRUE, TRUE, TRUE, TRUE),
     Desc("bad", TRUE, ANumber, FALSE, FALSE, FALSE, FALSE, FALSE, FALSE, TRUE, FALSE)}

(***************************************************************************)
(* One call of one path operation on a drawn target, with drawn arguments. *)
(* call keeps the operation, its arguments, the heap before it and its     *)
(* outcome.                                                                *)
(***************************************************************************)
PathInit ==
    /\ heap \in PathHeaps
    /\ call = NoCall
    /\ nCalls = 0
    /\ done = <<>>

PathCall(op, target, keys, val, desc, out) ==
    /\ heap' = out.heap
    /\ call' = [op |-> op, arg |-> target, keys |-> keys, val |-> val, desc |-> desc,
                ret |-> out.ret, threw |-> out.threw, pre |-> heap]
    /\ nCalls' = nCalls + 1
    /\ done' = done

NoKeys == KeysArg(TRUE, <<>>)

HasCall(target, keys) ==
    PathCall("has", target, keys, Undefined, NoDesc, Has(heap, target, keys))

GetCall(target, keys) ==
    PathCall("get", target, keys, Undefined, NoDesc, Get(heap, target, keys))

ReachCall(target, keys) ==
    PathCall("reach", target, keys, Undefined, NoDesc, ReachOp(heap, target, keys))

SetCall(target, keys, value) ==
    PathCall("set", target, keys, value, NoDesc, SetOp(heap, target, keys, value))

DeletePropertyCall(target, keys) ==
    PathCall("deleteProperty", target, keys, Undefined, NoDesc,
             DeleteProperty(heap, target, keys))

DefinePropertyCall(target, keys, d) ==
    PathCall("defineProperty", target, keys, Undefined, d,
             DefineProperty(heap, target, keys, d))

KeysCall(target) ==
    PathCall("keys", target, NoKeys, Undefined, NoDesc, KeysOp(heap, target))

GroupedKeysCall(target) ==
    PathCall("groupedKeys", target, NoKeys, Undefined, NoDesc, GroupedKeys(heap, target))

\* a behaviour is one call
Idle == call.op = "none"

PathNext ==
    \/ Idle /\ \E target \in PathTargets : KeysCall(target)
    \/ Idle /\ \E target \in PathTargets : GroupedKeysCall(target)
    \/ Idle /\ \E target \in PathTargets, keys \in KeysArgs : HasCall(target, keys)
    \/ Idle /\ \E target \in PathTargets, keys \in KeysArgs : GetCall(target, keys)
    \/ Idle /\ \E target \in PathTargets, keys \in KeysArgs : ReachCall(target, keys)
    \/ Idle /\ \E target \in PathTargets, keys \in KeysArgs :
                  DeletePropertyCall(target, keys)
    \/ Idle /\ \E target \in PathTargets, keys \in KeysArgs, value \in SetVals :
                  SetCall(target, keys, value)
    \/ Idle /\ \E target \in PathTargets, keys \in KeysArgs, d \in Descs :
                  DefinePropertyCall(target, keys, d)

PathSpec == PathInit /\ [][PathNext]_vars

\* the call that was made: its path, and whether it passed the validation
Called(op) == call.op = op
Walked(op) == call.op = op /\ ~ExpectTargetAndKeys(call.pre, call.arg, call.keys)


\* What the first n keys of p lead to from target, read off the graph h:
\* the value under the n-th key of what the first n - 1 keys lead to, and
\* undefined where that is atomic or lacks the key.
RECURSIVE Resolved(_, _, _, _)
Resolved(h, target, p, n) ==
    IF n = 0 THEN target
    ELSE LET c == Resolved(h, target, p, n - 1)
         IN  IF IsPrimitive(h, c) THEN Undefined
             ELSE IF ~ReflectHas(h, c, p[n]) THEN Undefined
             ELSE ReflectGet(h, c, p[n])

\* every non-final key of p leads from a composite to a composite in h
WalkResolves(h, target, p) ==
    \A i \in 1..(Len(p) - 1) : ~IsPrimitive(h, Resolved(h, target, p, i))

\* the penultimate container of the path, and its final key
Penultimate(h, target, p) == Resolved(h, target, p, Len(p) - 1)
FinalKey(p) == p[Len(p)]

\* the final key names an accessor property, own or inherited, of the
\* penultimate container
FinalIsAccessor(h, target, p) ==
    LET c == Penultimate(h, target, p)
    IN  /\ ~IsPrimitive(h, c)
        /\ ReflectHas(h, c, FinalKey(p))
        /\ h[FindHolder(h, c, FinalKey(p))].props[FinalKey(p)].t = "acc"

\* C13. Round trip: after set(target, p, x) has returned true,
\* get(target, p) is x and has(target, p) is true.
SetGetHas ==
    Walked("set") /\ call.ret =>
        /\ GetFrom(heap, call.arg, call.keys.items, 1) = call.val
        /\ HasFrom(heap, call.arg, call.keys.items, 1)

\* the non-final keys of p lead to the same values in h as in pre
Undisturbed(pre, h, target, p) ==
    \A i \in 1..(Len(p) - 1) : Resolved(h, target, p, i) = Resolved(pre, target, p, i)

\* C13 amended. The round trip holds where the final key names no accessor
\* property of the container it is assigned on and the assignment leaves
\* the non-final keys leading where they led.
SetGetHasData ==
    LET p == call.keys.items
        undisturbed == WalkResolves(call.pre, call.arg, p) =>
                           Undisturbed(call.pre, heap, call.arg, p)
    IN  Walked("set") /\ call.ret /\ ~FinalIsAccessor(heap, call.arg, p) /\ undisturbed =>
            /\ GetFrom(heap, call.arg, p, 1) = call.val
            /\ HasFrom(heap, call.arg, p, 1)

\* a set through a path whose intermediate container did not exist before
SetGetHasWitness ==
    /\ Walked("set") /\ call.ret
    /\ Len(call.keys.items) > 1
    /\ Len(heap) > Len(call.pre)
    /\ ~FinalIsAccessor(heap, call.arg, call.keys.items)
    /\ call.val = ANumber
    /\ GetFrom(heap, call.arg, call.keys.items, 1) = ANumber

\* how many of the non-final keys of p lead from composite to composite
\* in h, counted from the first
WalkLength(h, target, p) ==
    CHOOSE m \in 0..(Len(p) - 1) :
        /\ \A i \in 1..m : ~IsPrimitive(h, Resolved(h, target, p, i))
        /\ m < Len(p) - 1 => IsPrimitive(h, Resolved(h, target, p, m + 1))

\* the objects of pre are in h as they were
Kept(pre, h) == Len(h) >= Len(pre) /\ SubSeq(h, 1, Len(pre)) = pre

\* h is pre with a chain of new plain objects under the keys m + 1 .. n - 1
\* of p, hung under key m + 1 of c, the last of them holding v under the
\* final key
RECURSIVE ChainFrom(_, _, _, _, _)
ChainFrom(h, o, p, j, v) ==
    /\ h[o].kind = "Object" /\ h[o].proto = 0 /\ h[o].ip = "Object" /\ h[o].ext
    /\ \A k \in Keys : k # p[j] => h[o].props[k] = NoProp
    /\ IF j = Len(p) THEN h[o].props[p[j]] = PlainProp(v)
       ELSE /\ h[o].props[p[j]] = PlainProp(o + 1)
            /\ ChainFrom(h, o + 1, p, j + 1, v)

Created(pre, h, c, p, m, v) ==
    /\ Len(h) = Len(pre) + (Len(p) - 1 - m)
    /\ \A o \in 1..Len(pre) : o # c => h[o] = pre[o]
    /\ h[c] = [pre[c] EXCEPT !.props[p[m + 1]] = PlainProp(Len(pre) + 1)]
    /\ ChainFrom(h, Len(pre) + 1, p, m + 2, v)

\* the outcome of the call is that of the single-step assignment on c
AssignedOn(c) ==
    LET s == ReflectSet(call.pre, c, FinalKey(call.keys.items), call.val)
    IN  heap = s.heap /\ call.ret = s.ok

\* C14. set walks the non-final keys: at an absent one it stores a new
\* empty plain object and descends, at an atomic value it returns false,
\* and at the end it assigns under the final key of the penultimate
\* container and returns what that assignment returns.
SetWalks ==
    Walked("set") =>
        LET p == call.keys.items
            m == WalkLength(call.pre, call.arg, p)
            c == Resolved(call.pre, call.arg, p, m)
        IN  IF m = Len(p) - 1 THEN AssignedOn(c)
            ELSE IF ReflectHas(call.pre, c, p[m + 1])
            THEN call.ret = FALSE /\ heap = call.pre
            ELSE call.ret = TRUE /\ Created(call.pre, heap, c, p, m, call.val)

\* C14 amended. At an absent non-final key of a container that is not
\* extensible set returns false and leaves every object as it was.
SetWalksExtensible ==
    Walked("set") =>
        LET p == call.keys.items
            m == WalkLength(call.pre, call.arg, p)
            c == Resolved(call.pre, call.arg, p, m)
        IN  IF m = Len(p) - 1 THEN AssignedOn(c)
            ELSE IF ReflectHas(call.pre, c, p[m + 1])
            THEN call.ret = FALSE /\ heap = call.pre
            ELSE IF ~call.pre[c].ext
            THEN call.ret = FALSE /\ Kept(call.pre, heap)
            ELSE call.ret = TRUE /\ Created(call.pre, heap, c, p, m, call.val)

\* set has created a container under an absent non-final key
SetWalksWitness ==
    /\ Walked("set") /\ call.ret
    /\ WalkLength(call.pre, call.arg, call.keys.items) < Len(call.keys.items) - 1
    /\ Len(heap) > Len(call.pre)

\* C15. has(target, path) is true exactly where every non-final key
\* exists in the container reached so far and holds a composite, and the
\* final key exists in the penultimate container, whatever it holds.
HasIff ==
    Walked("has") =>
        /\ call.ret = (/\ WalkResolves(call.pre, call.arg, call.keys.items)
                       /\ ReflectHas(call.pre,
                                     Penultimate(call.pre, call.arg, call.keys.items),
                                     FinalKey(call.keys.items)))
        /\ heap = call.pre

\* has is true of a path of two keys whose final key holds undefined
HasIffWitness ==
    /\ Walked("has") /\ call.ret
    /\ Len(call.keys.items) = 2
    /\ Resolved(call.pre, call.arg, call.keys.items, 2) = Undefined

\* C16. get(target, path) returns what the final key of the penultimate
\* container holds where every non-final key exists and holds a composite,
\* and undefined, without raising, where a non-final key is absent or
\* holds an atomic value or the final key is absent.
GetWalks ==
    Walked("get") =>
        LET p == call.keys.items
            c == Penultimate(call.pre, call.arg, p)
        IN  /\ ~call.threw
            /\ heap = call.pre
            /\ call.ret = IF WalkResolves(call.pre, call.arg, p)
                             /\ ReflectHas(call.pre, c, FinalKey(p))
                          THEN ReflectGet(call.pre, c, FinalKey(p))
                          ELSE Undefined

\* get has returned the number held at the end of a path of two keys
GetWalksWitness ==
    /\ Walked("get")
    /\ Len(call.keys.items) = 2
    /\ WalkResolves(call.pre, call.arg, call.keys.items)
    /\ call.ret = ANumber

\* C17. reach(target, path) reports where the walk stopped: at an absent
\* key i the container and index i - 1, at an atomic value under a
\* non-final key i that value and index i, at an existing final key its
\* value, the last index and reached; keys are counted from 0.  Which of
\* the three it was shows in the result.
ReachReports ==
    Walked("reach") =>
        LET p == call.keys.items
            m == WalkLength(call.pre, call.arg, p)
            c == Resolved(call.pre, call.arg, p, m)
            absent == ~ReflectHas(call.pre, c, p[m + 1])
            atomic == ~absent /\ m < Len(p) - 1
        IN  /\ heap = call.pre
            /\ call.ret = IF absent THEN ReachResult(c, m - 1, FALSE)
                          ELSE IF atomic
                          THEN ReachResult(Resolved(call.pre, call.arg, p, m + 1), m, FALSE)
                          ELSE ReachResult(ReflectGet(call.pre, c, p[m + 1]), Len(p) - 1, TRUE)
            /\ call.ret.reached = (~absent /\ ~atomic)
            /\ ~call.ret.reached => (IsPrimitive(call.pre, call.ret.value) = atomic)

\* reach has stopped at the second key of a path, absent from the
\* container under the first
ReachReportsWitness ==
    /\ Walked("reach")
    /\ Len(call.keys.items) = 2
    /\ ~call.ret.reached
    /\ call.ret.index = 0
    /\ ~IsPrimitive(call.pre, call.ret.value)
    /\ call.ret.value # call.arg

\* the target is atomic, or the path is not a non-empty array of strings,
\* numbers and symbols
InvalidArguments(h, target, keys) ==
    \/ IsPrimitive(h, target)
    \/ ~(/\ keys.isArray
         /\ Len(keys.items) > 0
         /\ \A i \in 1..Len(keys.items) :
               ItemTypeOf(keys.items[i]) \in {"string", "number", "symbol"})

\* C18. Each path operation raises a TypeError exactly where the target is
\* atomic or the path is invalid (keys and groupedKeys: where the target is
\* atomic), and where it raises nothing has been created, changed or
\* deleted.
FastFail ==
    ~Idle =>
        /\ call.threw = IF call.op \in {"keys", "groupedKeys"}
                        THEN IsPrimitive(call.pre, call.arg)
                        ELSE InvalidArguments(call.pre, call.arg, call.keys)
        /\ call.threw => heap = call.pre

\* h has no object and no property that pre lacks
NothingCreated(pre, h) ==
    /\ Len(h) = Len(pre)
    /\ \A o \in 1..Len(pre) : \A k \in Keys :
          pre[o].props[k] = NoProp => h[o].props[k] = NoProp

\* C19. deleteProperty creates nothing and does not raise for valid
\* arguments; where a non-final key is absent it returns true, where a
\* non-final key holds an atomic value it returns false, and in both cases
\* it leaves the graph as it was.
DeleteExits ==
    Walked("deleteProperty") =>
        LET p == call.keys.items
            m == WalkLength(call.pre, call.arg, p)
            c == Resolved(call.pre, call.arg, p, m)
        IN  /\ ~call.threw
            /\ NothingCreated(call.pre, heap)
            /\ m < Len(p) - 1 =>
                  /\ heap = call.pre
                  /\ call.ret = ~ReflectHas(call.pre, c, p[m + 1])

\* deleteProperty has returned true at an absent first key of two
DeleteExitsWitness ==
    /\ Walked("deleteProperty") /\ call.ret
    /\ Len(call.keys.items) = 2
    /\ ~ReflectHas(call.pre, call.arg, call.keys.items[1])

\* h is pre but for the property k of c
SameButFor(pre, h, c, k) == h = [pre EXCEPT ![c].props[k] = h[c].props[k]]

\* the call is the single-step removal of the final key on c: true where
\* c has no own property of that key or a configurable one, which is
\* removed, false where it is not configurable, nothing else changed
RemovedOn(c, k) ==
    /\ SameButFor(call.pre, heap, c, k)
    /\ call.ret = (call.pre[c].props[k] = NoProp \/ call.pre[c].props[k].c)
    /\ heap[c].props[k] = IF call.ret THEN NoProp ELSE call.pre[c].props[k]

\* C20. Where every non-final key resolves to a composite, deleteProperty
\* is the single-step removal on the penultimate container, and after a
\* true result has(target, path) is false.
DeleteStep ==
    Walked("deleteProperty") /\ WalkResolves(call.pre, call.arg, call.keys.items) =>
        /\ RemovedOn(Penultimate(call.pre, call.arg, call.keys.items),
                     FinalKey(call.keys.items))
        /\ call.ret => ~HasFrom(heap, call.arg, call.keys.items, 1)

\* C20 amended. After a true result the penultimate container has no own
\* property of the final key, and has(target, path) is false unless the
\* container inherits the key.
DeleteStepOwn ==
    Walked("deleteProperty") /\ WalkResolves(call.pre, call.arg, call.keys.items) =>
        LET c == Penultimate(call.pre, call.arg, call.keys.items)
            k == FinalKey(call.keys.items)
        IN  /\ RemovedOn(c, k)
            /\ call.ret /\ ~ReflectHas(heap, c, k) =>
                  ~HasFrom(heap, call.arg, call.keys.items, 1)

\* deleteProperty has removed the final key of a path of two keys
DeleteStepWitness ==
    /\ Walked("deleteProperty") /\ call.ret
    /\ Len(call.keys.items) = 2
    /\ WalkResolves(call.pre, call.arg, call.keys.items)
    /\ heap # call.pre
    /\ ~HasFrom(heap, call.arg, call.keys.items, 1)

\* the chain of new plain objects from o on under the keys j .. n - 1 of
\* p, the last of them holding the property fp under the final key
RECURSIVE ChainEnding(_, _, _, _, _)
ChainEnding(h, o, p, j, fp) ==
    /\ h[o].kind = "Object" /\ h[o].proto = 0 /\ h[o].ip = "Object" /\ h[o].ext
    /\ \A k \in Keys : k # p[j] => h[o].props[k] = NoProp
    /\ IF j = Len(p) THEN h[o].props[p[j]] = fp
       ELSE /\ h[o].props[p[j]] = PlainProp(o + 1)
            /\ ChainEnding(h, o + 1, p, j + 1, fp)

CreatedEnding(pre, h, c, p, m, fp) ==
    /\ Len(h) = Len(pre) + (Len(p) - 1 - m)
    /\ \A o \in 1..Len(pre) : o # c => h[o] = pre[o]
    /\ h[c] = [pre[c] EXCEPT !.props[p[m + 1]] = PlainProp(Len(pre) + 1)]
    /\ ChainEnding(h, Len(pre) + 1, p, m + 2, fp)

\* the property q has every field the descriptor d gives
Matches(q, d) ==
    /\ d.t = "acc" => q.t = "acc" /\ (d.hg => q.hg) /\ (d.hs => q.hs)
    /\ d.t = "data" => q.t = "data"
    /\ d.hasV => q.v = d.v
    /\ d.hasW => q.w = d.w
    /\ d.hasE => q.e = d.e
    /\ d.hasC => q.c = d.c

\* the outcome of the call is that of the single-step definition on c
DefinedOn(c) ==
    LET s == ReflectDefineProperty(call.pre, c, FinalKey(call.keys.items), call.desc)
    IN  heap = s.heap /\ call.threw = s.threw /\ (~s.threw => call.ret = s.ok)

\* the call has hung a chain of new objects under key m + 1 of c and
\* defined the final key on the last of them
DefinedOnNew(c, m) ==
    LET bad == call.desc.t = "bad"
    IN  /\ call.threw = bad
        /\ ~bad => call.ret = TRUE
        /\ CreatedEnding(call.pre, heap, c, call.keys.items, m,
                         IF bad THEN NoProp ELSE FromDesc(call.desc))

\* after a true result the final key has what the descriptor gives: the
\* property matches it, get returns its value, and where it is not
\* writable a set of the same path is refused and changes nothing
DefinedReads(c, read) ==
    ~call.threw /\ call.ret =>
        LET p == call.keys.items
            q == heap[c].props[FinalKey(p)]
        IN  /\ Matches(q, call.desc)
            /\ read /\ call.desc.hasV => GetFrom(heap, call.arg, p, 1) = call.desc.v
            /\ read /\ q.t = "data" /\ ~q.w =>
                  SetFrom(heap, call.arg, p, 1, AString) = Out(heap, FALSE)

\* C21. defineProperty creates an empty plain object at every missing
\* non-final key, returns false at an atomic value under a non-final key,
\* and otherwise defines the final key on the penultimate container as the
\* single-step definition does; after a true result get(target, path)
\* reads the descriptor's value and the property has its attributes.
DefineWalks ==
    Walked("defineProperty") =>
        LET p == call.keys.items
            m == WalkLength(call.pre, call.arg, p)
            c == Resolved(call.pre, call.arg, p, m)
        IN  IF m = Len(p) - 1 THEN DefinedOn(c) /\ DefinedReads(c, TRUE)
            ELSE IF ReflectHas(call.pre, c, p[m + 1])
            THEN ~call.threw /\ call.ret = FALSE /\ heap = call.pre
            ELSE DefinedOnNew(c, m) /\ DefinedReads(Len(heap), TRUE)

\* C21 amended. At an absent non-final key of a container that is not
\* extensible defineProperty returns false and leaves every object as it
\* was; get reads the descriptor's value where the definition leaves the
\* non-final keys leading where they led.
DefineWalksExtensible ==
    Walked("defineProperty") =>
        LET p == call.keys.items
            m == WalkLength(call.pre, call.arg, p)
            c == Resolved(call.pre, call.arg, p, m)
        IN  IF m = Len(p) - 1
            THEN DefinedOn(c) /\ DefinedReads(c, Undisturbed(call.pre, heap, call.arg, p))
            ELSE IF ReflectHas(call.pre, c, p[m + 1])
            THEN ~call.threw /\ call.ret = FALSE /\ heap = call.pre
            ELSE IF ~call.pre[c].ext
            THEN ~call.threw /\ call.ret = FALSE /\ Kept(call.pre, heap)
            ELSE DefinedOnNew(c, m) /\ DefinedReads(Len(heap), TRUE)

\* defineProperty has defined a read-only property at the end of a path
\* of two keys, and get reads its value
DefineWalksWitness ==
    /\ Walked("defineProperty") /\ ~call.threw /\ call.ret
    /\ Len(call.keys.items) = 2
    /\ call.desc.hasW /\ ~call.desc.w
    /\ GetFrom(heap, call.arg, call.keys.items, 1) = ANumber
    /\ SetFrom(heap, call.arg, call.keys.items, 1, AString) = Out(heap, FALSE)

\* the prototype of x, an object of h or an intrinsic prototype; null at
\* the end of the chain
PrototypeOf(h, x) ==
    IF x = ObjectPrototype THEN Null
    ELSE IF x = OtherPrototype THEN ObjectPrototype
    ELSE IF h[x].proto # 0 THEN h[x].proto
    ELSE IF h[x].ip = "Object" THEN ObjectPrototype
    ELSE OtherPrototype

\* the own keys of x, in order
OwnKeysOf(h, x) == IF x >= 1 THEN ReflectOwnKeys(h, x) ELSE IntrinsicOwnKeys(x)

\* the objects of the prototype chain of x, x included
RECURSIVE ChainObjects(_, _)
ChainObjects(h, x) ==
    IF x = Null THEN {} ELSE {x} \cup ChainObjects(h, PrototypeOf(h, x))

\* the call was given a composite target
Given(op) == call.op = op /\ ~IsPrimitive(call.pre, call.arg)

\* C22. keys(target) is the duplicate-free union of the own keys of target
\* and of every object on its prototype chain: each such key once, also
\* where an own key shadows one of a prototype, and nothing else.
KeysUnion ==
    Given("keys") =>
        /\ ~call.threw
        /\ \A i, j \in 1..Len(call.ret) : i # j => call.ret[i] # call.ret[j]
        /\ Range(call.ret) =
              UNION {Range(OwnKeysOf(call.pre, x)) : x \in ChainObjects(call.pre, call.arg)}

\* keys of a target with an own key that its prototype has too
KeysUnionWitness ==
    /\ Given("keys")
    /\ call.pre[call.arg].proto # 0
    /\ \E k \in Keys :
          /\ call.pre[call.arg].props[k] # NoProp
          /\ call.pre[call.pre[call.arg].proto].props[k] # NoProp
          /\ k \in Range(call.ret)

NullLayerLast ==
    Given("groupedKeys") => call.ret[Len(call.ret)] = Layer(Null, <<>>)

\* the kinds whose children deepClone clones
RecursiveKinds == CollectionKinds \cup {"WeakRef", "Object"}

\* the i-th event of the log is the entry into a source of one of the
\* given kinds that is not in the cache yet
FirstEntry(i, kinds) ==
    /\ call.log[i].e = "call"
    /\ IsRef(call.log[i].o)
    /\ call.pre[call.log[i].o].kind \in kinds
    /\ \A j \in 1..(i - 1) : ~(call.log[j].e = "reg" /\ call.log[j].o = call.log[i].o)

\* every such entry is followed at once by the registration of a new
\* object, and no source is entered a second time unregistered
RegisteredFirst(kinds) ==
    \A i \in 1..Len(call.log) :
        FirstEntry(i, kinds) =>
            /\ i < Len(call.log)
            /\ call.log[i + 1].e = "reg"
            /\ call.log[i + 1].o = call.log[i].o
            /\ call.log[i + 1].r > Len(call.pre)
            /\ \A j \in 1..(i - 1) : ~FirstEntry(j, {call.pre[call.log[i].o].kind})
                                       \/ call.log[j].o # call.log[i].o

\* C25. During a clone call every source array, map, set, weak reference
\* and generic object is registered in the cache with its new clone before
\* the first of its children is cloned, and no second copy of it is
\* started.
PreOrder == call.op = "clone" => RegisteredFirst(RecursiveKinds)

\* the leaf kinds that are duplicated by payload
LeafPayloadKinds == PayloadKinds \ {"BigInt"}

ReachAgrees ==
    Walked("reach") =>
        LET has == Has(call.pre, call.arg, call.keys)
            get == Get(call.pre, call.arg, call.keys)
        IN  /\ ~call.threw /\ ~has.threw /\ ~get.threw
            /\ has.ret = call.ret.reached
            /\ get.ret = IF call.ret.reached THEN call.ret.value ELSE Undefined

\* reach has stopped on a string under the first of two keys: has is false
\* and get is undefined, not the string
ReachAgreesWitness ==
    /\ Walked("reach")
    /\ Len(call.keys.items) = 2
    /\ ~call.ret.reached
    /\ call.ret.value = AString
    /\ Get(call.pre, call.arg, call.keys).ret = Undefined
    /\ ~Has(call.pre, call.arg, call.keys).ret


\* C28. The range of the results of reach on a path of n keys: the index
\* lies between -1 and n - 1; reached is true exactly when the index is
\* n - 1; a result that is not reached holds an atomic value exactly when
\* the walk left on an atomic value under a non-final key, and a composite,
\* the container that lacks the next key, exactly when it left on an absent
\* key; the return statement after the loop is never the one taken.
ReachRange ==
    Walked("reach") =>
        LET p == call.keys.items
            n == Len(p)
            r == call.ret
            exit == ReachReturn(call.pre, call.arg, p, 0)
        IN  /\ r.index \in (0 - 1)..(n - 1)
            /\ r.reached = (r.index = n - 1)
            /\ r.reached = (exit = "final")
            /\ ~r.reached =>
                  /\ IsPrimitive(call.pre, r.value) = (exit = "atomic")
                  /\ ~IsPrimitive(call.pre, r.value) = (exit = "absent")
                  /\ exit = "absent" => ~ReflectHas(call.pre, r.value, p[r.index + 2])
            /\ exit # "after"

\* the lowest index: the first of two keys is absent from the target
ReachRangeWitness ==
    /\ Walked("reach")
    /\ Len(call.keys.items) = 2
    /\ call.ret = ReachResult(call.arg, 0 - 1, FALSE)
    /\ ReachReturn(call.pre, call.arg, call.keys.items, 0) = "absent"


(***************************************************************************)
(* Sequences of reading calls: get, has, reach, keys, groupedKeys and      *)
(* clone called one after another, on objects and on a string, with paths  *)
(* that resolve, that stop early, that hold an item that is no key, and    *)
(* with a string in place of the path.                                     *)
(***************************************************************************)
ReadHeaps ==
    InheritHeaps \cup {<<Container(k, <<2, AString>>), Leaf("Date")>> : k \in ContainerKinds}

ReadTargets == {1, 2, AString}

ReadKeysArgs ==
    {KeysArg(TRUE, <<"a">>), KeysArg(TRUE, <<"a", "a">>), KeysArg(TRUE, <<"a", BadKey>>),
     KeysArg(FALSE, <<"a">>)}

ReadInit ==
    /\ heap \in ReadHeaps
    /\ call = NoCall
    /\ nCalls = 0
    /\ done = <<>>

CanRead == nCalls < MaxReads

ReadNext ==
    \/ CanRead /\ \E target \in ReadTargets : KeysCall(target)
    \/ CanRead /\ \E target \in ReadTargets : GroupedKeysCall(target)
    \/ CanRead /\ \E target \in ReadTargets, keys \in ReadKeysArgs : HasCall(target, keys)
    \/ CanRead /\ \E target \in ReadTargets, keys \in ReadKeysArgs : GetCall(target, keys)
    \/ CanRead /\ \E target \in ReadTargets, keys \in ReadKeysArgs : ReachCall(target, keys)
    \/ CanRead /\ \E obj \in ReadTargets : CloneCall(obj)

ReadSpec == ReadInit /\ [][ReadNext]_vars

\* C30. The reading operations leave their argument as it was: after each
\* call of get, has, reach, keys, groupedKeys or clone in a sequence of
\* such calls, returned or raised, every object that was there before the
\* call has the properties, elements, entries, prototype and extensibility
\* it had; only clone allocates, and what it allocates is new.
ReadsKeep ==
    call.op \in {"get", "has", "reach", "keys", "groupedKeys", "clone"} =>
        /\ Kept(call.pre, heap)
        /\ call.op # "clone" => heap = call.pre

\* a clone that allocated, then a get that raised
ReadsKeepWitness ==
    /\ nCalls = 2
    /\ Len(done) = 1
    /\ Len(call.pre) > done[1].base
    /\ call.op = "get"
    /\ call.threw
    /\ heap = call.pre


(***************************************************************************)
(* set and defineProperty on a heap that holds Object.prototype as one of  *)
(* its objects (2), so that what the new objects of a walk inherit shows:  *)
(* nothing, or a property that was added to Object.prototype, writable,    *)
(* read-only or with a getter alone.                                       *)
(***************************************************************************)
ObjectPrototypeA ==
    {NoProp, PlainProp(ANumber), DataProp(ANumber, FALSE, FALSE, TRUE),
     AccProp(TRUE, FALSE, FALSE, TRUE)}

TraceHeaps ==
    {<<Obj(0, ext, pa, NoProp, NoProp),
       [NewObj("Object", 0, "null") EXCEPT !.props =
           [k \in Keys |-> IF k = "a" THEN qa ELSE IF k = "@s" THEN qs ELSE NoProp]]>>
        : ext \in BOOLEAN, pa \in {NoProp, PlainProp(AString)},
          qa \in ObjectPrototypeA, qs \in {NoProp, PlainProp(AString)}}

TraceKeysArgs == {KeysArg(TRUE, p) : p \in SeqsUpTo({"a", "_v"}, MaxPath)}

TraceInit ==
    /\ heap \in TraceHeaps
    /\ call = NoCall
    /\ nCalls = 0
    /\ done = <<>>

TraceNext ==
    \/ Idle /\ \E keys \in TraceKeysArgs, value \in SetVals : SetCall(1, keys, value)
    \/ Idle /\ \E keys \in TraceKeysArgs, d \in Descs : DefinePropertyCall(1, keys, d)

TraceSpec == TraceInit /\ [][TraceNext]_vars

\* C29. A call of set or defineProperty that returns false leaves no trace:
\* the objects reachable from the target are the ones that were reachable
\* before the call, each as it was; no container the walk created on its
\* way is left behind.
NoTrace ==
    (call.op \in {"set", "defineProperty"} /\ ~call.threw /\ call.ret = FALSE) =>
        /\ Kept(call.pre, heap)
        /\ Reach(heap, call.arg) = Reach(call.pre, call.arg)

=============================================================================
